---------------------------- MODULE Spec2Model ----------------------------
(***************************************************************************)
(* A model of the notes worker: the Note Store (db.ts), the Session        *)
(* Manager (auth.ts) and the request router (index.ts), all working on one *)
(* key-value namespace NOTES_KV.                                           *)
(*                                                                         *)
(* Strings that the code only stores, compares for equality or tests for   *)
(* emptiness (titles, ids, tokens) are TLA+ strings.  Strings whose bytes  *)
(* the code reads (the password given to secureCompare) are sequences of   *)
(* UTF-16 code units, encoded to UTF-8 as TextEncoder does.                *)
(***************************************************************************)
EXTENDS Integers, Sequences, FiniteSets, TLC

VARIABLES
    NOTES_KV,        \* the namespace: [note: id -> entry, session: token -> entry]
    ADMIN_PASSWORD,  \* env.ADMIN_PASSWORD, a sequence of UTF-16 code units
    now,             \* Date.now(), in milliseconds
    issuedAt,        \* history: token -> the time createSession returned it (0: never)
    revoked,         \* history: the issued tokens deleteSession was called on
    usedIds,         \* history: the ids nanoid has returned or a note was saved under
    last,            \* the last operation, its arguments and its result
    calls            \* the calls in progress: caller -> the call's local variables

vars == <<NOTES_KV, ADMIN_PASSWORD, now, issuedAt, revoked, usedIds, last, calls>>

---------------------------------------------------------------------------
(* Bounds of the model *)

\* how many tokens of TokenPool randomUUID and cookies draw from
NumTokens == 2
\* the clock's millisecond part never exceeds this
MaxMs == 3
\* how many session lifetimes the clock may jump ahead
MaxJumps == 1
\* the longest string given to secureCompare, in UTF-16 code units
MaxLen == 2
\* how many calls of getNextNoteNumber a run makes
MaxNumber == 3

---------------------------------------------------------------------------
(* Values *)

\* note ids in the order KV list returns their keys (byte order of the key)
IdPool == <<"0001", "0002", "V1StGXR8">>
NoteIds == {IdPool[i] : i \in 1..Len(IdPool)}

TokenPool == <<"uuid-1", "uuid-2", "uuid-3">>
Tokens == {TokenPool[i] : i \in 1..NumTokens}

SESSION_TTL == 60 * 60 * 24
\* the session lifetime on the millisecond clock of Date.now()
SessionTtlMs == SESSION_TTL * 1000

---------------------------------------------------------------------------
(* auth.ts: secureCompare *)

\* the UTF-16 code units the modelled passwords are written in:
\* 'a', 'x', U+00E9, a high and a low surrogate, U+FFFD
CodeUnits == {97, 120, 233, 55357, 56832, 65533}

RECURSIVE BitXor(_, _)
BitXor(x, y) ==
    IF x = 0 /\ y = 0 THEN 0
    ELSE (((x % 2) + (y % 2)) % 2) + 2 * BitXor(x \div 2, y \div 2)

RECURSIVE BitOr(_, _)
BitOr(x, y) ==
    IF x = 0 /\ y = 0 THEN 0
    ELSE (IF x % 2 = 1 \/ y % 2 = 1 THEN 1 ELSE 0) + 2 * BitOr(x \div 2, y \div 2)

IsHighSurrogate(u) == u >= 55296 /\ u <= 56319
IsLowSurrogate(u) == u >= 56320 /\ u <= 57343

\* the UTF-8 bytes of one code point
Utf8(cp) ==
    IF cp < 128 THEN <<cp>>
    ELSE IF cp < 2048 THEN <<192 + (cp \div 64), 128 + (cp % 64)>>
    ELSE IF cp < 65536
        THEN <<224 + (cp \div 4096), 128 + ((cp \div 64) % 64), 128 + (cp % 64)>>
    ELSE <<240 + (cp \div 262144), 128 + ((cp \div 4096) % 64),
           128 + ((cp \div 64) % 64), 128 + (cp % 64)>>

\* new TextEncoder().encode(s): a surrogate pair is one code point, a lone
\* surrogate is replaced by U+FFFD
RECURSIVE encode(_)
encode(s) ==
    IF s = <<>> THEN <<>>
    ELSE IF IsHighSurrogate(s[1]) /\ Len(s) >= 2 /\ IsLowSurrogate(s[2])
        THEN Utf8(65536 + (s[1] - 55296) * 1024 + (s[2] - 56320))
             \o encode(SubSeq(s, 3, Len(s)))
    ELSE IF IsHighSurrogate(s[1]) \/ IsLowSurrogate(s[1])
        THEN Utf8(65533) \o encode(Tail(s))
    ELSE Utf8(s[1]) \o encode(Tail(s))

\* for (i ...) result |= aBuffer[i] ^ bBuffer[i], from (1-based) position i on
RECURSIVE XorFold(_, _, _, _)
XorFold(aBuffer, bBuffer, i, result) ==
    IF i > Len(aBuffer) THEN result
    ELSE XorFold(aBuffer, bBuffer, i + 1,
                 BitOr(result, BitXor(aBuffer[i], bBuffer[i])))

\* secureCompare with the loop's bound off by one: the last byte is not read
secureCompare_SkipsLastByte(a, b) ==
    LET aBuffer == encode(a)
        bBuffer == encode(b)
    IN  IF Len(aBuffer) # Len(bBuffer) THEN FALSE
        ELSE aBuffer = <<>>
             \/ XorFold(SubSeq(aBuffer, 1, Len(aBuffer) - 1), bBuffer, 1, 0) = 0

\* The branch for different lengths hashes both buffers and folds the two
\* digests into a value it never reads: it returns false whatever they are.
secureCompare(a, b) ==
    LET aBuffer == encode(a)
        bBuffer == encode(b)
    IN  IF Len(aBuffer) # Len(bBuffer) THEN FALSE
        ELSE XorFold(aBuffer, bBuffer, 1, 0) = 0

RECURSIVE SeqsUpTo(_, _)
SeqsUpTo(S, n) ==
    IF n = 0 THEN {<<>>}
    ELSE LET shorter == SeqsUpTo(S, n - 1)
         IN  shorter \cup {Append(s, x) : s \in shorter, x \in S}

\* the strings secureCompare is tried on
Secrets == SeqsUpTo(CodeUnits, MaxLen)

---------------------------------------------------------------------------
(* The key-value namespace *)

\* what get returns for a key that holds nothing: null, as a string and as a record
Null == "null"
NullNote == [null |-> TRUE]
NullMeta == [null |-> TRUE]
NullEntry == [null |-> TRUE]

\* the notes, the sessions and the legacy counter key meta:counter
EmptyKV ==
    [note    |-> [id \in NoteIds |-> NullEntry],
     session |-> [token \in Tokens |-> NullEntry],
     counter |-> Null]

\* NOTES_KV.get("session:" + token) at time t: a key put with expirationTtl
\* is gone once its expiration is reached
KVGetSession(kv, token, t) ==
    IF token \notin Tokens THEN Null
    ELSE LET e == kv.session[token]
         IN  IF e = NullEntry \/ t >= e.expiration THEN Null ELSE e.value

\* NOTES_KV.get("note:" + id, {type: 'json'})
KVGetNote(kv, id) ==
    IF id \notin NoteIds THEN NullNote
    ELSE LET e == kv.note[id]
         IN  IF e = NullEntry THEN NullNote ELSE e.value

\* NOTES_KV.list({prefix: 'note:'}).keys: the keys that hold a value, in key order
RECURSIVE KVListFrom(_, _)
KVListFrom(kv, i) ==
    IF i > Len(IdPool) THEN <<>>
    ELSE LET id == IdPool[i]
         IN  (IF id \in NoteIds /\ kv.note[id] # NullEntry
              THEN <<[name |-> id, metadata |-> kv.note[id].metadata]>>
              ELSE <<>>) \o KVListFrom(kv, i + 1)

KVListNotes(kv) == KVListFrom(kv, 1)

---------------------------------------------------------------------------
(* auth.ts: the Session Manager *)

\* createSession with token the value crypto.randomUUID() returned
createSession(kv, token, t) ==
    [kv EXCEPT !.session[token] =
        [value |-> "valid", expiration |-> t + SessionTtlMs]]

validateSession(kv, token, t) ==
    IF token = Null \/ token = "" THEN FALSE
    ELSE KVGetSession(kv, token, t) = "valid"

\* deleteSession that deletes nothing
deleteSession_KeepsSession(kv, token) == kv

\* deleteSession that deletes every session
deleteSession_EverySession(kv, token) ==
    [kv EXCEPT !.session = [other \in Tokens |-> NullEntry]]

deleteSession(kv, token) ==
    IF token # Null /\ token # "" /\ token \in Tokens
    THEN [kv EXCEPT !.session[token] = NullEntry]
    ELSE kv

---------------------------------------------------------------------------
(* db.ts: Markdown rendering and sanitization *)

\* marked.parse: a heading, a paragraph; raw HTML is passed through
MarkedBlock(b) ==
    CASE b = "# Hi" -> [tag |-> "h1", attrs |-> {}, text |-> "Hi"]
      [] b = "<script>alert(1)</script>" ->
             [tag |-> "script", attrs |-> {}, text |-> "alert(1)"]
      [] b = "<img src=x onerror=alert(1)>" ->
             [tag |-> "img", attrs |-> {"src", "onerror"}, text |-> ""]
      [] b = "<a href=x onclick=alert(1)>link</a>" ->
             [tag |-> "a", attrs |-> {"href", "onclick"}, text |-> "link"]
      [] OTHER -> [tag |-> "p", attrs |-> {}, text |-> b]

marked_parse(content) == [i \in 1..Len(content) |-> MarkedBlock(content[i])]

\* SANITIZE_OPTIONS, for the tags the modelled sources produce
AllowedTags == {"p", "h1", "h2", "h3", "img", "a", "code", "pre", "span",
                "ul", "ol", "li", "blockquote", "strong", "em", "br"}
AllowedAttributes(tag) ==
    CASE tag = "img" -> {"src", "alt", "title"}
      [] tag = "a" -> {"href", "title", "target", "rel"}
      [] tag \in {"code", "pre", "span"} -> {"class"}
      [] OTHER -> {}

\* the raw HTML stored as it is
sanitizeHtml_PassThrough(html) == html

\* sanitizeHtml(rawHtml, SANITIZE_OPTIONS): a tag off the list is discarded
\* (script with its text), an attribute off the list is dropped
RECURSIVE sanitizeHtml(_)
sanitizeHtml(html) ==
    IF html = <<>> THEN <<>>
    ELSE LET e == html[1]
         IN  (IF e.tag \in AllowedTags
              THEN <<[e EXCEPT !.attrs = e.attrs \cap AllowedAttributes(e.tag)]>>
              ELSE <<>>) \o sanitizeHtml(Tail(html))

---------------------------------------------------------------------------
(* db.ts: the Note Store *)

getNote(kv, id) == KVGetNote(kv, id)

\* saveNote with the creation time taken anew on every write
NoteToSave_ForgetsCreated(kv, id, title, content, t) ==
    [id          |-> id,
     title       |-> title,
     content     |-> content,
     htmlContent |-> sanitizeHtml(marked_parse(content)),
     created     |-> t,
     updated     |-> t]

\* saveNote that renders the content of a new note only
NoteToSave_KeepsRenderedBody(kv, id, title, content, t) ==
    LET existing == getNote(kv, id)
    IN  [id          |-> id,
         title       |-> title,
         content     |-> content,
         htmlContent |-> IF existing # NullNote THEN existing.htmlContent
                         ELSE sanitizeHtml(marked_parse(content)),
         created     |-> IF existing # NullNote /\ existing.created # 0
                         THEN existing.created ELSE t,
         updated     |-> t]

\* saveNote at time t: the note it writes
NoteToSave(kv, id, title, content, t) ==
    LET existing == getNote(kv, id)
    IN  [id          |-> id,
         title       |-> title,
         content     |-> content,
         htmlContent |-> sanitizeHtml(marked_parse(content)),
         created     |-> IF existing # NullNote /\ existing.created # 0
                         THEN existing.created ELSE t,
         updated     |-> t]

\* the metadata with updated taken from the wrong field
NoteMetaOf_UpdatedFromCreated(note) ==
    [id |-> note.id, title |-> note.title,
     created |-> note.created, updated |-> note.created]

\* the metadata saveNote puts beside the note
NoteMetaOf(note) ==
    [id |-> note.id, title |-> note.title,
     created |-> note.created, updated |-> note.updated]

\* a put that leaves the metadata of a key that has some
KVPutNote_KeepsMetadata(kv, id, note, metadata) ==
    [kv EXCEPT !.note[id] =
        [value    |-> note,
         metadata |-> IF kv.note[id] # NullEntry THEN kv.note[id].metadata
                      ELSE metadata]]

\* NOTES_KV.put("note:" + id, JSON.stringify(note), {metadata}): one put
\* writes the value and the metadata of the key
KVPutNote(kv, id, note, metadata) ==
    [kv EXCEPT !.note[id] = [value |-> note, metadata |-> metadata]]

\* saveNote that writes only where a note is stored
saveNote_OnlyExisting(kv, id, title, content, t) ==
    IF getNote(kv, id) = NullNote THEN kv
    ELSE LET note == NoteToSave(kv, id, title, content, t)
         IN  KVPutNote(kv, id, note, NoteMetaOf(note))

\* saveNote: the namespace after the put of the note and its metadata
saveNote(kv, id, title, content, t) ==
    LET note == NoteToSave(kv, id, title, content, t)
    IN  KVPutNote(kv, id, note, NoteMetaOf(note))

\* deleteNote with the existence test dropped: it always reports true
deleteNoteResult_AlwaysTrue(kv, id) == TRUE

\* deleteNote: what it returns
deleteNoteResult(kv, id) == getNote(kv, id) # NullNote

\* deleteNote: the namespace it leaves
deleteNote(kv, id) ==
    IF getNote(kv, id) = NullNote THEN kv
    ELSE [kv EXCEPT !.note[id] = NullEntry]

\* the comparator turned round: oldest first
compareNotes_Ascending(a, b) == a.created - b.created

\* the comparator of getAllNotes' sort: (a, b) => b.created - a.created
compareNotes(a, b) == b.created - a.created

\* Array.prototype.sort is stable: m goes behind every element that the
\* comparator does not put after it
SortInsert(sorted, m) ==
    LET k == Cardinality({i \in 1..Len(sorted) : compareNotes(sorted[i], m) <= 0})
    IN  SubSeq(sorted, 1, k) \o <<m>> \o SubSeq(sorted, k + 1, Len(sorted))

RECURSIVE SortFrom(_, _, _)
SortFrom(list, i, sorted) ==
    IF i > Len(list) THEN sorted
    ELSE SortFrom(list, i + 1, SortInsert(sorted, list[i]))

RECURSIVE FilterMeta(_)
FilterMeta(keys) ==
    IF keys = <<>> THEN <<>>
    ELSE (IF keys[1].metadata # NullMeta THEN <<keys[1].metadata>> ELSE <<>>)
         \o FilterMeta(Tail(keys))

getAllNotes(kv) == SortFrom(FilterMeta(KVListNotes(kv)), 1, <<>>)

\* getLatestNote taking the list's last element
getLatestNote_Last(kv) ==
    LET notes == getAllNotes(kv)
    IN  IF Len(notes) = 0 THEN NullNote ELSE getNote(kv, notes[Len(notes)].id)

getLatestNote(kv) ==
    LET notes == getAllNotes(kv)
    IN  IF Len(notes) = 0 THEN NullNote ELSE getNote(kv, notes[1].id)

\* notes.findIndex((n) => n.id === currentId), 1-based; 0 when there is none
findIndex(notes, currentId) ==
    LET hits == {i \in 1..Len(notes) : notes[i].id = currentId}
    IN  IF hits = {} THEN 0 ELSE CHOOSE i \in hits : \A j \in hits : i <= j

\* getPreviousNoteId looking the wrong way along the list
getPreviousNoteId_Newer(kv, currentId) ==
    IF getNote(kv, currentId) = NullNote THEN Null
    ELSE LET notes == getAllNotes(kv)
             currentIndex == findIndex(notes, currentId)
         IN  IF currentIndex > 1 THEN notes[currentIndex - 1].id ELSE Null

getPreviousNoteId(kv, currentId) ==
    IF getNote(kv, currentId) = NullNote THEN Null
    ELSE LET notes == getAllNotes(kv)
             currentIndex == findIndex(notes, currentId)
         IN  IF currentIndex >= 1 /\ currentIndex < Len(notes)
             THEN notes[currentIndex + 1].id ELSE Null

\* getNextNoteId looking the wrong way along the list
getNextNoteId_Older(kv, currentId) ==
    IF getNote(kv, currentId) = NullNote THEN Null
    ELSE LET notes == getAllNotes(kv)
             currentIndex == findIndex(notes, currentId)
         IN  IF currentIndex >= 1 /\ currentIndex < Len(notes)
             THEN notes[currentIndex + 1].id ELSE Null

getNextNoteId(kv, currentId) ==
    IF getNote(kv, currentId) = NullNote THEN Null
    ELSE LET notes == getAllNotes(kv)
             currentIndex == findIndex(notes, currentId)
         IN  IF currentIndex > 1 THEN notes[currentIndex - 1].id ELSE Null

---------------------------------------------------------------------------
(* The state after deployment, and the clock *)

\* no call is in progress
NoCalls == <<>>

InitWith(password) ==
    /\ NOTES_KV = EmptyKV
    /\ ADMIN_PASSWORD = password
    /\ now = 1
    /\ issuedAt = [token \in Tokens |-> 0]
    /\ revoked = {}
    /\ usedIds = {}
    /\ last = [op |-> "init"]
    /\ calls = NoCalls

\* the clock stays within MaxMs milliseconds of a whole number of session
\* lifetimes, MaxJumps at most
ClockInBounds(t) ==
    /\ t % SessionTtlMs <= MaxMs
    /\ t \div SessionTtlMs <= MaxJumps

Tick(d) ==
    /\ ClockInBounds(now + d)
    /\ now' = now + d
    /\ last' = [op |-> "tick"]
    /\ UNCHANGED <<NOTES_KV, ADMIN_PASSWORD, issuedAt, revoked, usedIds, calls>>

\* time passes: a millisecond, the lifetime of a session, or all but a
\* millisecond of it
TickMs == Tick(1)
TickTtl == Tick(SessionTtlMs)
TickAlmostTtl == Tick(SessionTtlMs - 1)

---------------------------------------------------------------------------
(* The Note Store's operations, called one after another *)

StoredIds(kv) == {id \in NoteIds : kv.note[id] # NullEntry}

\* generateNoteId drawing an id that may have been drawn before
generateNoteId_MayRepeat(ids) == ids

\* generateNoteId: the values nanoid(8) may return, among ids: an id it has
\* not returned before and that no note was ever saved under
generateNoteId(ids) == ids \ usedIds

FreshIds == generateNoteId(NoteIds)

Create(title, content) ==
    \E id \in FreshIds :
        /\ NOTES_KV' = saveNote(NOTES_KV, id, title, content, now)
        /\ usedIds' = usedIds \cup {id}
        /\ last' = [op |-> "create", id |-> id, title |-> title,
                    content |-> content]
        /\ UNCHANGED <<ADMIN_PASSWORD, now, issuedAt, revoked, calls>>

Update(id, title, content) ==
    /\ NOTES_KV' = saveNote(NOTES_KV, id, title, content, now)
    /\ last' = [op |-> "update", id |-> id, title |-> title,
                content |-> content, existed |-> getNote(NOTES_KV, id) # NullNote]
    /\ usedIds' = usedIds \cup {id}
    /\ UNCHANGED <<ADMIN_PASSWORD, now, issuedAt, revoked, calls>>

Delete(id) ==
    /\ NOTES_KV' = deleteNote(NOTES_KV, id)
    /\ last' = [op |-> "delete", id |-> id,
                result |-> deleteNoteResult(NOTES_KV, id)]
    /\ UNCHANGED <<ADMIN_PASSWORD, now, issuedAt, revoked, usedIds, calls>>

\* get, listAll, latest, previousOf and nextOf change nothing; what each
\* returns is the value of its operator in the state it is called in
Query(op, id) ==
    /\ last' = [op |-> op, id |-> id]
    /\ UNCHANGED <<NOTES_KV, ADMIN_PASSWORD, now, issuedAt, revoked, usedIds, calls>>

Get(id) == Query("get", id)
ListAll == Query("listAll", Null)
Latest == Query("latest", Null)
PreviousOf(id) == Query("previousOf", id)
NextOf(id) == Query("nextOf", id)

\* the titles and contents notes are written with
NoteInputs ==
    {[title |-> "Hello", content |-> <<"# Hi">>],
     [title |-> "World",
      content |-> <<"text", "<script>alert(1)</script>",
                    "<img src=x onerror=alert(1)>",
                    "<a href=x onclick=alert(1)>link</a>">>]}

InitStore == InitWith(<<97, 120>>)

NextStore ==
    \/ \E in \in NoteInputs : Create(in.title, in.content)
    \/ \E id \in NoteIds, in \in NoteInputs : Update(id, in.title, in.content)
    \/ \E id \in NoteIds : Delete(id)
    \/ \E id \in NoteIds : Get(id)
    \/ ListAll
    \/ Latest
    \/ \E id \in NoteIds : PreviousOf(id)
    \/ \E id \in NoteIds : NextOf(id)
    \/ TickMs

SpecStore == InitStore /\ [][NextStore]_vars

---------------------------------------------------------------------------
(* The Session Manager's operations, called one after another *)

\* crypto.randomUUID() returns a token it has not returned before
FreshTokens == {token \in Tokens : issuedAt[token] = 0}
IssuedTokens == {token \in Tokens : issuedAt[token] # 0}

Issue ==
    \E token \in FreshTokens :
        /\ NOTES_KV' = createSession(NOTES_KV, token, now)
        /\ issuedAt' = [issuedAt EXCEPT ![token] = now]
        /\ revoked' = revoked \ {token}
        /\ last' = [op |-> "createSession", token |-> token, result |-> token]
        /\ UNCHANGED <<ADMIN_PASSWORD, now, usedIds, calls>>

Validate(token) ==
    /\ last' = [op |-> "validateSession", token |-> token,
                result |-> validateSession(NOTES_KV, token, now)]
    /\ UNCHANGED <<NOTES_KV, ADMIN_PASSWORD, now, issuedAt, revoked, usedIds, calls>>

Revoke(token) ==
    /\ NOTES_KV' = deleteSession(NOTES_KV, token)
    /\ revoked' = revoked \cup ({token} \cap IssuedTokens)
    /\ last' = [op |-> "deleteSession", token |-> token]
    /\ UNCHANGED <<ADMIN_PASSWORD, now, issuedAt, usedIds, calls>>

\* the tokens a caller may present: any of the pool, the empty string, none
PresentedTokens == Tokens \cup {"", Null}

InitSession == InitWith(<<97, 120>>)

NextSession ==
    \/ Issue
    \/ \E token \in PresentedTokens : Validate(token)
    \/ \E token \in PresentedTokens : Revoke(token)
    \/ TickMs
    \/ TickTtl
    \/ TickAlmostTtl

SpecSession == InitSession /\ [][NextSession]_vars

---------------------------------------------------------------------------
(* secureCompare, tried on every pair of strings *)

InitCompare ==
    /\ NOTES_KV = EmptyKV
    /\ ADMIN_PASSWORD = <<97, 120>>
    /\ now = 1
    /\ issuedAt = [token \in Tokens |-> 0]
    /\ revoked = {}
    /\ usedIds = {}
    /\ calls = NoCalls
    /\ \E a \in Secrets, b \in Secrets : last = [op |-> "input", a |-> a, b |-> b]

Compare ==
    /\ last.op = "input"
    /\ last' = [op |-> "secureCompare", a |-> last.a, b |-> last.b,
                result |-> secureCompare(last.a, last.b)]
    /\ UNCHANGED <<NOTES_KV, ADMIN_PASSWORD, now, issuedAt, revoked, usedIds, calls>>

NextCompare == Compare

SpecCompare == InitCompare /\ [][NextCompare]_vars

---------------------------------------------------------------------------
(* secureCompare, statement by statement: two runs, one after the other *)

Runs == {1, 2}

\* the UTF-16 code units of the strings the two runs compare: 'a', 'x', U+00E9
TimedUnits == {97, 120, 233}
TimedSecrets == SeqsUpTo(TimedUnits, MaxLen)

\* the length of a SHA-256 digest, in bytes
DigestLength == 256 \div 8

\* a run of secureCompare(a, b) before its first statement; steps counts the
\* iterations of the loop the run has executed
CompareCall(a, b) ==
    [op |-> "secureCompare", pc |-> "encode", a |-> a, b |-> b,
     aBuffer |-> <<>>, bBuffer |-> <<>>, i |-> 0, result |-> 0, steps |-> 0,
     returned |-> FALSE]

\* the loop's test, with a second exit as soon as a difference has been seen
LoopContinues_UntilMismatch(call) ==
    call.i < Len(call.aBuffer) /\ call.result = 0

\* i < aBuffer.length
LoopContinues(call) == call.i < Len(call.aBuffer)

\* the next statement of a run
CompareStatement(call) ==
    CASE call.pc = "encode" ->
             [call EXCEPT !.aBuffer = encode(call.a), !.bBuffer = encode(call.b),
                          !.pc = "lengths"]
      [] call.pc = "lengths" ->
             IF Len(call.aBuffer) # Len(call.bBuffer)
             THEN [call EXCEPT !.pc = "hash"]
             ELSE [call EXCEPT !.pc = "loop"]
      [] call.pc = "hash" ->
             \* both digests are folded, DigestLength iterations, and dropped
             [call EXCEPT !.steps = DigestLength, !.returned = FALSE, !.pc = "done"]
      [] call.pc = "loop" ->
             IF LoopContinues(call)
             THEN [call EXCEPT
                      !.result = BitOr(call.result,
                                       BitXor(call.aBuffer[call.i + 1],
                                              call.bBuffer[call.i + 1])),
                      !.i = call.i + 1,
                      !.steps = call.steps + 1]
             ELSE [call EXCEPT !.returned = (call.result = 0), !.pc = "done"]

\* run r executes its next statement; the second run starts when the first
\* has returned
CompareStep(r) ==
    /\ calls[r].pc # "done"
    /\ \A q \in Runs : q < r => calls[q].pc = "done"
    /\ calls' = [calls EXCEPT ![r] = CompareStatement(calls[r])]
    /\ UNCHANGED <<NOTES_KV, ADMIN_PASSWORD, now, issuedAt, revoked, usedIds, last>>

InitTimed ==
    /\ NOTES_KV = EmptyKV
    /\ ADMIN_PASSWORD = <<97, 120>>
    /\ now = 1
    /\ issuedAt = [token \in Tokens |-> 0]
    /\ revoked = {}
    /\ usedIds = {}
    /\ last = [op |-> "init"]
    /\ \E a \in TimedSecrets, b \in [Runs -> TimedSecrets] :
           calls = [r \in Runs |-> CompareCall(a, b[r])]

NextTimed == \E r \in Runs : CompareStep(r)

SpecTimed == InitTimed /\ [][NextTimed]_vars

---------------------------------------------------------------------------
(* Two callers of saveNote at once: each await is a point where the other runs *)

Callers == {1, 2}

\* a caller that has not called yet
IdleCall ==
    [op |-> "none", pc |-> "idle", id |-> Null, title |-> "", content |-> <<>>,
     before |-> NullNote, note |-> NullNote, writesAtRead |-> 0, seq |-> 0,
     returned |-> NullNote]

\* the saveNote calls that have put their note
WritesDone == Cardinality({c \in Callers : calls[c].pc = "done"})

\* the callers are numbered in the order they call
MayBegin(c) ==
    /\ calls[c].pc = "idle"
    /\ \A d \in Callers : d < c => calls[d].pc # "idle"

\* handleCreateNote up to the call of saveNote: id = await generateNoteId()
BeginCreate(c, title, content) ==
    /\ MayBegin(c)
    /\ \E id \in generateNoteId(NoteIds) :
           /\ calls' = [calls EXCEPT ![c] =
                  [IdleCall EXCEPT !.op = "create", !.pc = "read", !.id = id,
                                   !.title = title, !.content = content,
                                   !.before = getNote(NOTES_KV, id)]]
           /\ usedIds' = usedIds \cup {id}
    /\ UNCHANGED <<NOTES_KV, ADMIN_PASSWORD, now, issuedAt, revoked, last>>

\* handleUpdateNote up to the call of saveNote, with the id of the path
BeginUpdate(c, id, title, content) ==
    /\ MayBegin(c)
    /\ calls' = [calls EXCEPT ![c] =
           [IdleCall EXCEPT !.op = "update", !.pc = "read", !.id = id,
                            !.title = title, !.content = content,
                            !.before = getNote(NOTES_KV, id)]]
    /\ usedIds' = usedIds \cup {id}
    /\ UNCHANGED <<NOTES_KV, ADMIN_PASSWORD, now, issuedAt, revoked, last>>

\* saveNote from existing = await getNote(env, id) to the note it builds,
\* with Date.now() read when getNote has returned
SaveRead(c) ==
    /\ calls[c].pc = "read"
    /\ calls' = [calls EXCEPT ![c] =
           [calls[c] EXCEPT
               !.note = NoteToSave(NOTES_KV, calls[c].id, calls[c].title,
                                   calls[c].content, now),
               !.writesAtRead = WritesDone,
               !.pc = "write"]]
    /\ UNCHANGED <<NOTES_KV, ADMIN_PASSWORD, now, issuedAt, revoked, usedIds, last>>

\* saveNote's await NOTES_KV.put(...) and return note
SaveWrite(c) ==
    /\ calls[c].pc = "write"
    /\ NOTES_KV' = KVPutNote(NOTES_KV, calls[c].id, calls[c].note,
                             NoteMetaOf(calls[c].note))
    /\ calls' = [calls EXCEPT ![c] =
           [calls[c] EXCEPT !.seq = WritesDone + 1, !.returned = calls[c].note,
                            !.pc = "done"]]
    /\ UNCHANGED <<ADMIN_PASSWORD, now, issuedAt, revoked, usedIds, last>>

InitRace ==
    /\ NOTES_KV = EmptyKV
    /\ ADMIN_PASSWORD = <<97, 120>>
    /\ now = 1
    /\ issuedAt = [token \in Tokens |-> 0]
    /\ revoked = {}
    /\ usedIds = {}
    /\ last = [op |-> "init"]
    /\ calls = [c \in Callers |-> IdleCall]

\* notes are created one after another before the two callers start
NextRace ==
    \/ /\ \A c \in Callers : calls[c].pc = "idle"
       /\ Create("Hello", <<"# Hi">>)
    \/ \E c \in Callers, in \in NoteInputs : BeginCreate(c, in.title, in.content)
    \/ \E c \in Callers, id \in NoteIds, in \in NoteInputs :
           BeginUpdate(c, id, in.title, in.content)
    \/ \E c \in Callers : SaveRead(c)
    \/ \E c \in Callers : SaveWrite(c)
    \/ TickMs

SpecRace == InitRace /\ [][NextRace]_vars

---------------------------------------------------------------------------
(* The operations of the Note Store and the Session Manager, one key-value *)
(* call at a time, each of which may fail                                  *)

\* the operations called, and the id and the token they are called with
Operations ==
    {"getNote", "saveNote", "deleteNote", "getLatestNote",
     "createSession", "validateSession", "deleteSession"}
SessionOperations == {"createSession", "validateSession", "deleteSession"}
OperationIds == {IdPool[1]}
OperationTokens == {TokenPool[1], "", Null}

\* what a key-value call rejects with
KVErrors == {"KV: internal error", "KV: timed out"}

\* an operation before its first statement.  results holds what its
\* key-value calls returned, trace the calls it made; failure (the error a
\* call of it was rejected with), before (the namespace when it was called)
\* and emptied (whether the namespace held no note at some moment since it
\* was called) are history.
OperationCall(op, id, token, kv) ==
    [op |-> op, pc |-> "run", id |-> id, token |-> token,
     title |-> "World", content |-> <<"text", "<script>alert(1)</script>">>,
     results |-> <<>>, trace |-> <<>>, thrown |-> Null, failure |-> Null,
     before |-> kv, emptied |-> KVListNotes(kv) = <<>>]

\* Number.prototype.toString(): the decimal digits of n
RECURSIVE toString(_)
toString(n) ==
    LET digits == <<"0", "1", "2", "3", "4", "5", "6", "7", "8", "9">>
    IN  IF n < 10 THEN digits[n + 1]
        ELSE toString(n \div 10) \o digits[(n % 10) + 1]

\* String.prototype.padStart(length, fill), fill one character long
RECURSIVE padStart(_, _, _)
padStart(string, length, fill) ==
    IF Len(string) >= length THEN string
    ELSE padStart(fill \o string, length, fill)

\* parseInt(string, 10) of the decimal digits of a number: that number
parseInt(string) ==
    LET RECURSIVE from(_)
        from(n) == IF toString(n) = string THEN n ELSE from(n + 1)
    IN  from(0)

\* the counter stored again as it was read
NextNumber_NoIncrement(counter) ==
    IF counter # Null THEN parseInt(counter) ELSE 1

\* getNextNoteNumber: counter ? parseInt(counter, 10) + 1 : 1
NextNumber(counter) ==
    IF counter # Null THEN parseInt(counter) + 1 ELSE 1

\* a token test that lets the empty string through
HasToken_NotNull(token) == token # Null

\* if (token), if (!token): null, undefined and the empty string are falsy
HasToken(token) == token # "" /\ token # Null

KVCall(kind, space, name) == [kind |-> kind, key |-> <<space, name>>]
Return == [kind |-> "return", key |-> <<>>]

\* the key-value call the operation makes next, Return when it returns
Instruction(call) ==
    LET n == Len(call.results)
        note == KVCall("get", "note", call.id)
    IN  CASE call.op = "getNote" -> IF n = 0 THEN note ELSE Return
          [] call.op = "saveNote" ->
                 IF n = 0 THEN note
                 ELSE IF n = 1 THEN KVCall("put", "note", call.id)
                 ELSE Return
          [] call.op = "deleteNote" ->
                 IF n = 0 THEN note
                 ELSE IF n = 1 /\ call.results[1] # NullNote
                     THEN KVCall("delete", "note", call.id)
                 ELSE Return
          [] call.op = "getLatestNote" ->
                 IF n = 0 THEN KVCall("list", "note", "")
                 ELSE IF n = 1 /\ Len(call.results[1]) # 0
                     THEN KVCall("get", "note", call.results[1][1].id)
                 ELSE Return
          [] call.op = "getNextNoteNumber" ->
                 IF n = 0 THEN KVCall("get", "meta", "counter")
                 ELSE IF n = 1 THEN KVCall("put", "meta", "counter")
                 ELSE Return
          [] call.op = "createSession" ->
                 IF n = 0 THEN KVCall("put", "session", call.token) ELSE Return
          [] call.op = "validateSession" ->
                 IF n = 0 /\ HasToken(call.token)
                     THEN KVCall("get", "session", call.token)
                 ELSE Return
          [] call.op = "deleteSession" ->
                 IF n = 0 /\ HasToken(call.token)
                     THEN KVCall("delete", "session", call.token)
                 ELSE Return

\* what the operation returns, once Instruction is Return
ReturnValue(call) ==
    LET n == Len(call.results)
    IN  CASE call.op \in {"getNote", "saveNote"} -> call.results[1]
          [] call.op = "deleteNote" -> n = 2
          [] call.op = "getLatestNote" ->
                 IF n = 1 THEN NullNote ELSE call.results[2]
          [] call.op = "getNextNoteNumber" ->
                 padStart(toString(NextNumber(call.results[1])), 4, "0")
          [] call.op = "createSession" -> call.token
          [] call.op = "validateSession" ->
                 IF n = 0 THEN FALSE ELSE call.results[1] = "valid"
          [] call.op = "deleteSession" -> "undefined"

\* what the operation holds when its next key-value call has returned at
\* time t: for saveNote's get, the note it builds from existing and Date.now()
ResultOfCall(call, kv, t) ==
    LET n == Len(call.results)
    IN  CASE call.op \in {"getNote", "deleteNote"} /\ n = 0 -> getNote(kv, call.id)
          [] call.op = "saveNote" /\ n = 0 ->
                 NoteToSave(kv, call.id, call.title, call.content, t)
          [] call.op = "getLatestNote" /\ n = 0 -> getAllNotes(kv)
          [] call.op = "getLatestNote" /\ n = 1 -> getNote(kv, call.results[1][1].id)
          [] call.op = "getNextNoteNumber" /\ n = 0 -> kv.counter
          [] call.op = "validateSession" /\ n = 0 -> KVGetSession(kv, call.token, t)
          [] OTHER -> "done"

\* the namespace when the operation's next key-value call has returned
NamespaceAfterCall(call, kv, t) ==
    LET n == Len(call.results)
    IN  CASE call.op = "saveNote" /\ n = 1 ->
                 KVPutNote(kv, call.id, call.results[1], NoteMetaOf(call.results[1]))
          [] call.op = "deleteNote" /\ n = 1 -> deleteNote(kv, call.id)
          [] call.op = "getNextNoteNumber" /\ n = 1 ->
                 [kv EXCEPT !.counter = toString(NextNumber(call.results[1]))]
          [] call.op = "createSession" /\ n = 0 -> createSession(kv, call.token, t)
          [] call.op = "deleteSession" /\ n = 0 -> deleteSession(kv, call.token)
          [] OTHER -> kv

\* a rejected call answered as if the key held nothing
OnRejection_ReportsAbsent(call, error) ==
    [call EXCEPT !.pc = "returned", !.results = Append(@, NullNote)]

\* an await whose call is rejected: no operation has a try/catch, the
\* operation rejects with the error of the call
OnRejection(call, error) == [call EXCEPT !.pc = "thrown", !.thrown = error]

\* the calls in flight see the namespace kv: history only
Observe(cs, kv) ==
    [d \in DOMAIN cs |->
        IF cs[d].pc = "run"
        THEN [cs[d] EXCEPT !.emptied = @ \/ KVListNotes(kv) = <<>>]
        ELSE cs[d]]

\* an operation is called; createSession draws its token from randomUUID
BeginOperation(c, op, id, token) ==
    /\ calls[c].pc # "run"
    /\ op = "createSession" => token \in FreshTokens
    /\ op \in SessionOperations => id = IdPool[1]
    /\ op \notin SessionOperations => token = ""
    /\ calls' = [calls EXCEPT ![c] = OperationCall(op, id, token, NOTES_KV)]
    /\ UNCHANGED <<NOTES_KV, ADMIN_PASSWORD, now, issuedAt, revoked, usedIds, last>>

\* the operation's next key-value call returns, or the operation returns
OperationStep(c) ==
    /\ calls[c].pc = "run"
    /\ \E instr \in {Instruction(calls[c])} :
           IF instr = Return
           THEN /\ calls' = [calls EXCEPT ![c].pc = "returned"]
                /\ usedIds' = IF calls[c].op = "getNextNoteNumber"
                              THEN usedIds \cup {ReturnValue(calls[c])} ELSE usedIds
                /\ UNCHANGED <<NOTES_KV, issuedAt, revoked>>
           ELSE /\ NOTES_KV' = NamespaceAfterCall(calls[c], NOTES_KV, now)
                /\ calls' = Observe([calls EXCEPT
                       ![c].results = Append(@, ResultOfCall(calls[c], NOTES_KV, now)),
                       ![c].trace = Append(@, instr)], NOTES_KV')
                /\ issuedAt' = IF calls[c].op = "createSession"
                               THEN [issuedAt EXCEPT ![calls[c].token] = now]
                               ELSE issuedAt
                /\ revoked' = IF calls[c].op = "deleteSession"
                              THEN revoked \cup ({calls[c].token} \cap IssuedTokens)
                              ELSE revoked
                /\ usedIds' = IF calls[c].op = "saveNote" /\ instr.kind = "put"
                              THEN usedIds \cup {calls[c].id} ELSE usedIds
    /\ UNCHANGED <<ADMIN_PASSWORD, now, last>>

\* the operation's next key-value call is rejected with error: the call has
\* no effect on the namespace
OperationCallFails(c, error) ==
    /\ calls[c].pc = "run"
    /\ Instruction(calls[c]) # Return
    /\ calls' = [calls EXCEPT ![c] =
           [OnRejection([calls[c] EXCEPT !.trace = Append(@, Instruction(calls[c]))],
                        error)
               EXCEPT !.failure = error]]
    /\ UNCHANGED <<NOTES_KV, ADMIN_PASSWORD, now, issuedAt, revoked, usedIds, last>>

InitFailing ==
    /\ NOTES_KV = EmptyKV
    /\ ADMIN_PASSWORD = <<97, 120>>
    /\ now = 1
    /\ issuedAt = [token \in Tokens |-> 0]
    /\ revoked = {}
    /\ usedIds = {}
    /\ last = [op |-> "init"]
    /\ calls = <<[pc |-> "idle"]>>

NextFailing ==
    \/ \E op \in Operations, id \in OperationIds, token \in OperationTokens :
           BeginOperation(1, op, id, token)
    \/ OperationStep(1)
    \/ \E error \in KVErrors : OperationCallFails(1, error)
    \/ TickMs

SpecFailing == InitFailing /\ [][NextFailing]_vars

---------------------------------------------------------------------------
(* The legacy ids: getNextNoteNumber and the saveNote under the id it      *)
(* returns, by two creations at once                                       *)

\* the creations that may run at once
Creators == {1, 2}

\* the calls of getNextNoteNumber in flight other than c's
NumbersInFlight(c) ==
    {d \in Creators \ {c} :
        calls[d].pc = "run" /\ calls[d].op = "getNextNoteNumber"}

\* a creation calls getNextNoteNumber.  History, in last: how many calls
\* there were, and whether one was ever made while another was in flight;
\* in the call: the ids the calls before it had returned.
BeginNumber(c) ==
    /\ calls[c].pc # "run"
    /\ last.begun < MaxNumber
    /\ calls' = [calls EXCEPT ![c] =
           OperationCall("getNextNoteNumber", IdPool[1], "", NOTES_KV)
               @@ [earlier |-> usedIds]]
    /\ last' = [op |-> "getNextNoteNumber", begun |-> last.begun + 1,
                overlapped |-> last.overlapped \/ NumbersInFlight(c) # {}]
    /\ UNCHANGED <<NOTES_KV, ADMIN_PASSWORD, now, issuedAt, revoked, usedIds>>

\* the creation saves its note under the id getNextNoteNumber returned
BeginSaveNumbered(c) ==
    /\ calls[c].pc = "returned"
    /\ calls[c].op = "getNextNoteNumber"
    /\ ReturnValue(calls[c]) \in NoteIds
    /\ BeginOperation(c, "saveNote", ReturnValue(calls[c]), "")

InitNumbered ==
    /\ NOTES_KV = EmptyKV
    /\ ADMIN_PASSWORD = <<97, 120>>
    /\ now = 1
    /\ issuedAt = [token \in Tokens |-> 0]
    /\ revoked = {}
    /\ usedIds = {}
    /\ last = [op |-> "init", begun |-> 0, overlapped |-> FALSE]
    /\ calls = [c \in Creators |-> [pc |-> "idle"]]

NextNumbered ==
    \/ \E c \in Creators : BeginNumber(c)
    \/ \E c \in Creators : BeginSaveNumbered(c)
    \/ \E c \in Creators : OperationStep(c)

SpecNumbered == InitNumbered /\ [][NextNumbered]_vars

---------------------------------------------------------------------------
(* Two requests at once: saveNote, deleteNote and getLatestNote, one       *)
(* key-value call at a time                                                *)

\* the first request saves a note or asks for the latest, the second
\* deletes a note
ConcurrentOperations ==
    {<<1, "saveNote">>, <<1, "getLatestNote">>, <<2, "deleteNote">>}
ConcurrentIds == {IdPool[1], IdPool[2]}

InitConcurrent ==
    /\ NOTES_KV = EmptyKV
    /\ ADMIN_PASSWORD = <<97, 120>>
    /\ now = 1
    /\ issuedAt = [token \in Tokens |-> 0]
    /\ revoked = {}
    /\ usedIds = {}
    /\ last = [op |-> "init"]
    /\ calls = [c \in Callers |-> [pc |-> "idle"]]

NextConcurrent ==
    \/ \E call \in ConcurrentOperations, id \in ConcurrentIds :
           /\ call[2] = "getLatestNote" => id = IdPool[1]
           /\ BeginOperation(call[1], call[2], id, "")
    \/ \E c \in Callers : OperationStep(c)
    \/ TickMs

SpecConcurrent == InitConcurrent /\ [][NextConcurrent]_vars

---------------------------------------------------------------------------
(* auth.ts: cookies and requireAuth *)

\* A request is [method, path, cookie, form].  path is the sequence of the
\* pathname's segments after its leading slash ("/" is <<"">>, "/admin/" is
\* <<"admin", "">>); cookie is the Cookie header as <<name, value>>, <<>>
\* when the request has none; form is a function from the names of the
\* fields the request carries to their values.
NoCookieHeader == <<>>

\* request.headers.get('Cookie') matched against /session=([^;]+)/
getSessionFromCookie(request) ==
    IF request.cookie = NoCookieHeader THEN Null
    ELSE IF request.cookie[1] = "session" /\ request.cookie[2] # ""
        THEN request.cookie[2]
    ELSE Null

NoCookie == [null |-> TRUE]

createSessionCookie(token) ==
    [name |-> "session", value |-> token, HttpOnly |-> TRUE, Secure |-> TRUE,
     SameSite |-> "Strict", Path |-> "/", MaxAge |-> SESSION_TTL]

createLogoutCookie ==
    [name |-> "session", value |-> "", HttpOnly |-> TRUE, Secure |-> TRUE,
     SameSite |-> "Strict", Path |-> "/", MaxAge |-> 0]

NullBody == [null |-> TRUE]

\* a response without a Location header
NoLocation == <<>>

\* SECURITY_HEADERS, as pairs of a header's name and its value; a value is
\* the sequence of its parts (the directives of a policy)
SECURITY_HEADERS ==
    {<<"Content-Security-Policy",
       <<"default-src 'self'", "style-src 'self' 'unsafe-inline'",
         "img-src 'self' https: data:", "script-src 'none'">>>>,
     <<"X-Content-Type-Options", <<"nosniff">>>>,
     <<"X-Frame-Options", <<"DENY">>>>,
     <<"Referrer-Policy", <<"strict-origin-when-cross-origin">>>>,
     <<"Permissions-Policy", <<"geolocation=()", "microphone=()", "camera=()">>>>}

\* new Response(body, {status, headers}): Location and Set-Cookie are fields
\* of their own, headers holds the other headers
Response(status, location, cookie, body, headers) ==
    [status |-> status, Location |-> location, SetCookie |-> cookie,
     body |-> body, headers |-> headers]

NullResponse == [null |-> TRUE]

\* requireAuth letting a request through on the mere presence of a cookie
requireAuth_AnyCookie(kv, t, request) ==
    LET token == getSessionFromCookie(request)
    IN  IF token = Null
        THEN Response(302, <<"admin", "login">>, NoCookie, NullBody, {})
        ELSE NullResponse

\* requireAuth: the response that denies the request, NullResponse when the
\* request is authenticated
requireAuth(kv, t, request) ==
    LET token == getSessionFromCookie(request)
    IN  IF token = Null \/ ~validateSession(kv, token, t)
        THEN Response(302, <<"admin", "login">>, NoCookie, NullBody, {})
        ELSE NullResponse

---------------------------------------------------------------------------
(* index.ts: the router and its handlers *)

\* A handler's outcome: the namespace it leaves, its response, the
\* functions of the Note Store and the Session Manager it called, in order,
\* and for the history the token it issued, the token it revoked and the id
\* it saved under (Null when it did none of these).
Outcome(kv, response, issued, revokedToken, saved, storeCalls) ==
    [kv |-> kv, response |-> response, issued |-> issued,
     revokedToken |-> revokedToken, saved |-> saved, storeCalls |-> storeCalls]

Answer(kv, response, storeCalls) ==
    Outcome(kv, response, Null, Null, Null, storeCalls)

secureResponse(body, status, location, cookie) ==
    Response(status, location, cookie, body,
             SECURITY_HEADERS
             \cup (IF body # NullBody
                   THEN {<<"Content-Type", <<"text/html; charset=utf-8">>>>} ELSE {}))

\* formData.get(name)?.toString() || empty
FormGet(form, name, empty) == IF name \in DOMAIN form THEN form[name] ELSE empty

\* the path segments that match [a-zA-Z0-9_-]+ in the modelled requests
Slugs == NoteIds \cup {"nonexistent-note"}

\* path.match(/^<prefix>\/([a-zA-Z0-9_-]+)$/): the captured id, Null for no match
MatchId(prefix, path) ==
    IF /\ Len(path) = Len(prefix) + 1
       /\ SubSeq(path, 1, Len(prefix)) = prefix
       /\ path[Len(path)] \in Slugs
    THEN path[Len(path)]
    ELSE Null

\* path.startsWith('/admin'), for the modelled first segments
StartsWithAdmin(path) == Len(path) >= 1 /\ path[1] \in {"admin", "adminx"}

handleHome(kv) ==
    LET latestNote == getLatestNote(kv)
    IN  IF latestNote = NullNote
        THEN Answer(kv, secureResponse([page |-> "empty"], 200, NoLocation, NoCookie),
                    <<"getLatestNote">>)
        ELSE Answer(kv, secureResponse(NullBody, 302, <<latestNote.id>>, NoCookie),
                    <<"getLatestNote">>)

handleNotePage(kv, id) ==
    LET note == getNote(kv, id)
    IN  IF note = NullNote
        THEN Answer(kv, secureResponse([page |-> "404"], 404, NoLocation, NoCookie),
                    <<"getNote">>)
        ELSE Answer(kv, secureResponse(
                 [page |-> "note", note |-> note,
                  previousId |-> getPreviousNoteId(kv, id)], 200, NoLocation, NoCookie),
                 <<"getNote", "getPreviousNoteId">>)

\* handleLogin with the test of the comparison's result turned round
handleLogin_Inverted(kv, password, t, request, token) ==
    LET submitted == FormGet(request.form, "password", <<>>)
        isValid == secureCompare(submitted, password)
    IN  IF isValid
        THEN Answer(kv, secureResponse(
                 [page |-> "login", error |-> "Invalid password"], 401, NoLocation, NoCookie),
                 <<>>)
        ELSE Outcome(createSession(kv, token, t),
                     secureResponse(NullBody, 302, <<"admin">>, createSessionCookie(token)),
                     token, Null, Null, <<"createSession">>)

\* handleLogin, with token the value crypto.randomUUID() returns
handleLogin(kv, password, t, request, token) ==
    LET submitted == FormGet(request.form, "password", <<>>)
        isValid == secureCompare(submitted, password)
    IN  IF ~isValid
        THEN Answer(kv, secureResponse(
                 [page |-> "login", error |-> "Invalid password"], 401, NoLocation, NoCookie),
                 <<>>)
        ELSE Outcome(createSession(kv, token, t),
                     secureResponse(NullBody, 302, <<"admin">>, createSessionCookie(token)),
                     token, Null, Null, <<"createSession">>)

\* handleCreateNote, with id the value generateNoteId() returns
handleCreateNote(kv, t, request, id) ==
    LET title == FormGet(request.form, "title", "")
        content == FormGet(request.form, "content", <<>>)
    IN  IF title = "" \/ content = <<>>
        THEN Answer(kv, secureResponse(
                 [page |-> "Title and content are required"], 400, NoLocation, NoCookie),
                 <<>>)
        ELSE Outcome(saveNote(kv, id, title, content, t),
                     secureResponse(NullBody, 302, <<"admin">>, NoCookie),
                     Null, Null, id, <<"saveNote">>)

\* handleUpdateNote that tests the title only
handleUpdateNote_TitleOnly(kv, t, request, id) ==
    LET title == FormGet(request.form, "title", "")
        content == FormGet(request.form, "content", <<>>)
    IN  IF title = ""
        THEN Answer(kv, secureResponse(
                 [page |-> "Title and content are required"], 400, NoLocation, NoCookie),
                 <<>>)
        ELSE Outcome(saveNote(kv, id, title, content, t),
                     secureResponse(NullBody, 302, <<"admin">>, NoCookie),
                     Null, Null, id, <<"saveNote">>)

handleUpdateNote(kv, t, request, id) ==
    LET title == FormGet(request.form, "title", "")
        content == FormGet(request.form, "content", <<>>)
    IN  IF title = "" \/ content = <<>>
        THEN Answer(kv, secureResponse(
                 [page |-> "Title and content are required"], 400, NoLocation, NoCookie),
                 <<>>)
        ELSE Outcome(saveNote(kv, id, title, content, t),
                     secureResponse(NullBody, 302, <<"admin">>, NoCookie),
                     Null, Null, id, <<"saveNote">>)

\* handleAdminRoutes from "All other admin routes require authentication" on,
\* for a request requireAuth let through
handleAuthenticated(kv, t, request, freshId) ==
    LET path == request.path
        method == request.method
        editId == MatchId(<<"admin", "edit">>, path)
        deleteId == MatchId(<<"admin", "delete">>, path)
        notFound ==
            Answer(kv, secureResponse([page |-> "Not found"], 404, NoLocation, NoCookie),
                   <<>>)
        noteNotFound ==
            Answer(kv, secureResponse([page |-> "Note not found"], 404, NoLocation, NoCookie),
                   <<"getNote">>)
    IN  IF path = <<"admin">> \/ path = <<"admin", "">>
        THEN Answer(kv, secureResponse(
                 [page |-> "dashboard", notes |-> getAllNotes(kv)], 200, NoLocation, NoCookie),
                 <<"getAllNotes">>)
        ELSE IF path = <<"admin", "new">> /\ method = "GET"
        THEN Answer(kv, secureResponse([page |-> "editor"], 200, NoLocation, NoCookie),
                    <<>>)
        ELSE IF path = <<"admin", "new">> /\ method = "POST"
        THEN handleCreateNote(kv, t, request, freshId)
        ELSE IF editId # Null /\ method = "GET"
        THEN IF getNote(kv, editId) = NullNote THEN noteNotFound
             ELSE Answer(kv, secureResponse(
                      [page |-> "editor", note |-> getNote(kv, editId)],
                      200, NoLocation, NoCookie), <<"getNote">>)
        ELSE IF editId # Null /\ method = "POST"
        THEN handleUpdateNote(kv, t, request, editId)
        ELSE IF deleteId # Null /\ method = "GET"
        THEN IF getNote(kv, deleteId) = NullNote THEN noteNotFound
             ELSE Answer(kv, secureResponse(
                      [page |-> "deleteConfirm", note |-> getNote(kv, deleteId)],
                      200, NoLocation, NoCookie), <<"getNote">>)
        ELSE IF deleteId # Null /\ method = "POST"
        THEN Answer(deleteNote(kv, deleteId),
                    secureResponse(NullBody, 302, <<"admin">>, NoCookie),
                    <<"deleteNote">>)
        ELSE notFound

handleAdminRoutes(kv, password, t, request, freshToken, freshId) ==
    LET path == request.path
        method == request.method
        token == getSessionFromCookie(request)
        authResponse == requireAuth(kv, t, request)
        \* requireAuth calls validateSession when the request has a token
        authCalls == IF token # Null THEN <<"validateSession">> ELSE <<>>
    IN  IF path = <<"admin", "login">> /\ method = "GET"
        THEN Answer(kv, secureResponse([page |-> "login"], 200, NoLocation, NoCookie),
                    <<>>)
        ELSE IF path = <<"admin", "login">> /\ method = "POST"
        THEN handleLogin(kv, password, t, request, freshToken)
        ELSE IF path = <<"admin", "logout">>
        THEN Outcome(IF token # Null THEN deleteSession(kv, token) ELSE kv,
                     secureResponse(NullBody, 302, <<"">>, createLogoutCookie),
                     Null, token, Null,
                     IF token # Null THEN <<"deleteSession">> ELSE <<>>)
        ELSE IF authResponse # NullResponse
        THEN Answer(kv, authResponse, authCalls)
        ELSE [handleAuthenticated(kv, t, request, freshId)
                 EXCEPT !.storeCalls = authCalls \o @]

\* the worker's fetch handler, at time t, with freshToken and freshId the
\* values randomUUID and nanoid return if the handler calls them
fetch(kv, password, t, request, freshToken, freshId) ==
    LET path == request.path
        noteId == MatchId(<<>>, path)
    IN  IF path = <<"">> \/ path = <<>>
        THEN handleHome(kv)
        ELSE IF StartsWithAdmin(path)
        THEN handleAdminRoutes(kv, password, t, request, freshToken, freshId)
        ELSE IF noteId # Null
        THEN handleNotePage(kv, noteId)
        ELSE Answer(kv, secureResponse([page |-> "404"], 404, NoLocation, NoCookie),
                    <<>>)

---------------------------------------------------------------------------
(* The worker serving requests, one after another *)

EmptyForm == <<>>

Request(method, path, cookie, form) ==
    [method |-> method, path |-> path, cookie |-> cookie, form |-> form]

\* the values randomUUID may return to the handler of request
TokenChoices(request, tokens) ==
    IF request.path = <<"admin", "login">> /\ request.method = "POST"
    THEN tokens \cap FreshTokens ELSE {TokenPool[1]}

\* the values nanoid may return to the handler of request, among ids
IdChoices(request, ids) ==
    IF request.path = <<"admin", "new">> /\ request.method = "POST"
    THEN generateNoteId(ids) ELSE {IdPool[1]}

\* the worker answers request; randomUUID draws from tokens, nanoid from ids
Fetch(request, tokens, ids) ==
    \E freshToken \in TokenChoices(request, tokens),
       freshId \in IdChoices(request, ids) :
        \E out \in {fetch(NOTES_KV, ADMIN_PASSWORD, now, request, freshToken, freshId)} :
            /\ NOTES_KV' = out.kv
            /\ issuedAt' = IF out.issued = Null THEN issuedAt
                           ELSE [issuedAt EXCEPT ![out.issued] = now]
            /\ revoked' = IF out.issued # Null THEN revoked \ {out.issued}
                          ELSE IF out.revokedToken # Null
                              THEN revoked \cup ({out.revokedToken} \cap IssuedTokens)
                          ELSE revoked
            /\ usedIds' = IF out.saved = Null THEN usedIds
                          ELSE usedIds \cup {out.saved}
            /\ last' = [op |-> "fetch", request |-> request,
                        response |-> out.response, storeCalls |-> out.storeCalls]
            /\ UNCHANGED <<ADMIN_PASSWORD, now, calls>>

---------------------------------------------------------------------------
(* The admin routes: login, logout and the routes behind requireAuth *)

\* the id the admin requests name, and the one nanoid returns
AdminIds == {IdPool[1]}

CookieHeaders ==
    {NoCookieHeader, <<"session", "">>} \cup {<<"session", token>> : token \in Tokens}

LoginForms ==
    {EmptyForm} \cup {[password |-> p] : p \in {<<97>>, <<97, 120>>, <<97, 120, 120>>}}

\* the title or the content may be missing, or empty
NoteForms ==
    {[title |-> "Hello", content |-> <<"# Hi">>],
     [content |-> <<"# Hi">>],
     [title |-> "", content |-> <<"# Hi">>],
     [title |-> "Hello"],
     [title |-> "Hello", content |-> <<>>]}

EditPaths == {<<"admin", "edit", id>> : id \in AdminIds}
DeletePaths == {<<"admin", "delete", id>> : id \in AdminIds}

LoginRequests ==
    {Request("GET", <<"admin", "login">>, NoCookieHeader, EmptyForm)}
    \cup {Request("POST", <<"admin", "login">>, NoCookieHeader, form) :
             form \in LoginForms}

LogoutRequests ==
    {Request("GET", <<"admin", "logout">>, cookie, EmptyForm) :
        cookie \in CookieHeaders}

TokenCookies == {<<"session", token>> : token \in Tokens}

\* requests to the routes behind requireAuth: with every cookie, the
\* remaining pages with the cookie of a session, and the remaining forms with
\* the cookie of the first
ProtectedRequests ==
    {Request("GET", path, cookie, EmptyForm) :
        path \in {<<"admin">>, <<"adminx">>}, cookie \in CookieHeaders}
    \cup {Request("PUT", <<"admin", "login">>, cookie, EmptyForm) :
        cookie \in CookieHeaders}
    \cup {Request("POST", path, cookie, EmptyForm) :
        path \in DeletePaths, cookie \in CookieHeaders}
    \cup {Request("POST", path, cookie, [title |-> "Hello", content |-> <<"# Hi">>]) :
        path \in {<<"admin", "new">>} \cup EditPaths, cookie \in CookieHeaders}
    \cup {Request("GET", path, cookie, EmptyForm) :
        path \in {<<"admin", "new">>} \cup EditPaths \cup DeletePaths,
        cookie \in TokenCookies}
    \cup {Request("PUT", <<"admin", "new">>, cookie, EmptyForm) :
        cookie \in TokenCookies}
    \cup {Request("POST", path, <<"session", TokenPool[1]>>, form) :
        path \in {<<"admin", "new">>} \cup EditPaths, form \in NoteForms}

AdminRequests == LoginRequests \cup LogoutRequests \cup ProtectedRequests

InitHttp == InitWith(<<97, 120>>)

NextHttp ==
    \/ \E request \in AdminRequests : Fetch(request, Tokens, AdminIds)
    \/ TickTtl

SpecHttp == InitHttp /\ [][NextHttp]_vars

---------------------------------------------------------------------------
(* The public pages, and the admin requests that write the notes on them *)

PageCookie == <<"session", TokenPool[1]>>

PageRequests ==
    {Request("GET", path, NoCookieHeader, EmptyForm) :
        path \in {<<"">>, <<"nonexistent-note">>, <<"x", "y">>}
                 \cup {<<id>> : id \in NoteIds}}
    \cup {Request("POST", <<"admin", "login">>, NoCookieHeader,
                  [password |-> <<97, 120>>])}
    \cup {Request("POST", path, PageCookie, [title |-> "Hello", content |-> <<"# Hi">>]) :
        path \in {<<"admin", "new">>} \cup {<<"admin", "edit", id>> : id \in NoteIds}}
    \cup {Request("POST", <<"admin", "delete", id>>, PageCookie, EmptyForm) :
        id \in NoteIds}

InitPages == InitWith(<<97, 120>>)

NextPages ==
    \/ \E request \in PageRequests : Fetch(request, {TokenPool[1]}, NoteIds)
    \/ TickMs

SpecPages == InitPages /\ [][NextPages]_vars

---------------------------------------------------------------------------
(* What the claims say *)

\* 24 hours, on the millisecond clock
DayMs == 24 * 60 * 60 * 1000

\* token was issued and has since been neither revoked nor expired
LiveSession(token) ==
    /\ token \in Tokens
    /\ issuedAt[token] # 0
    /\ token \notin revoked
    /\ now < issuedAt[token] + DayMs

\* request carries a session cookie whose token has a live session
CarriesLiveSession(request) ==
    /\ request.cookie # NoCookieHeader
    /\ request.cookie[1] = "session"
    /\ LiveSession(request.cookie[2])

\* path starts with /admin and is neither /admin/login nor /admin/logout
ProtectedPath(path) ==
    /\ StartsWithAdmin(path)
    /\ path # <<"admin", "login">>
    /\ path # <<"admin", "logout">>

IsFetch(l) == l.op = "fetch"

\* C1: a request to a path under /admin other than /admin/login and
\* /admin/logout, whatever its method, that carries no session cookie or a
\* token without a live session is answered 302 to /admin/login and leaves
\* every note record as it was.
C1_DeniedAdminRequestChangesNothing ==
    [][(/\ IsFetch(last')
        /\ ProtectedPath(last'.request.path)
        /\ ~CarriesLiveSession(last'.request))
       => (/\ last'.response.status = 302
           /\ last'.response.Location = <<"admin", "login">>
           /\ NOTES_KV'.note = NOTES_KV.note)]_vars

\* a POST to delete a stored note, with the cookie of an expired session,
\* was answered with the redirect to the login page
C1_Witness ==
    /\ IsFetch(last)
    /\ last.request.method = "POST"
    /\ last.request.path \in DeletePaths
    /\ last.request.cookie # NoCookieHeader
    /\ last.request.cookie[2] \in Tokens
    /\ issuedAt[last.request.cookie[2]] # 0
    /\ now >= issuedAt[last.request.cookie[2]] + DayMs
    /\ last.response.status = 302
    /\ last.response.Location = <<"admin", "login">>
    /\ StoredIds(NOTES_KV) # {}

\* C2: after any sequence of issue, revoke and expiry, validate(token) is
\* true exactly when token was issued and has since been neither revoked nor
\* expired, 24 hours after issuance; validate of the token just issued is
\* true and validate of the token just revoked is false.
C2_ValidateIffIssuedAndLive ==
    /\ \A token \in PresentedTokens :
           validateSession(NOTES_KV, token, now) <=> LiveSession(token)
    /\ last.op = "createSession" => validateSession(NOTES_KV, last.result, now)
    /\ last.op = "deleteSession" => ~validateSession(NOTES_KV, last.token, now)

\* validate has just answered false for a token that was issued exactly 24
\* hours ago and never revoked, while another token is still valid
C2_Witness ==
    /\ last.op = "validateSession"
    /\ last.token \in Tokens
    /\ last.result = FALSE
    /\ issuedAt[last.token] # 0
    /\ last.token \notin revoked
    /\ now = issuedAt[last.token] + DayMs
    /\ \E other \in Tokens : validateSession(NOTES_KV, other, now)

IsLoginPost(l) ==
    /\ IsFetch(l)
    /\ l.request.path = <<"admin", "login">>
    /\ l.request.method = "POST"

\* the submitted password is the configured one
PasswordMatches(request) ==
    /\ "password" \in DOMAIN request.form
    /\ request.form.password = ADMIN_PASSWORD

\* C3: a login whose password equals the configured admin password is
\* answered 302 to /admin with a HttpOnly, Secure, SameSite=Strict, Path=/
\* cookie carrying a newly issued token that validates; any other login,
\* one without a password field included, is answered 401 'Invalid password'
\* and leaves the store unchanged.
C3_LoginIssuesSessionIffPasswordMatches ==
    [][IsLoginPost(last') =>
        IF PasswordMatches(last'.request)
        THEN /\ last'.response.status = 302
             /\ last'.response.Location = <<"admin">>
             /\ last'.response.SetCookie # NoCookie
             /\ last'.response.SetCookie.name = "session"
             /\ last'.response.SetCookie.HttpOnly
             /\ last'.response.SetCookie.Secure
             /\ last'.response.SetCookie.SameSite = "Strict"
             /\ last'.response.SetCookie.Path = "/"
             /\ last'.response.SetCookie.value \in Tokens
             /\ issuedAt[last'.response.SetCookie.value] = 0
             /\ validateSession(NOTES_KV', last'.response.SetCookie.value, now')
        ELSE /\ last'.response.status = 401
             /\ last'.response.body = [page |-> "login", error |-> "Invalid password"]
             /\ last'.response.SetCookie = NoCookie
             /\ NOTES_KV' = NOTES_KV]_vars

\* a second login with the right password was answered with a cookie whose
\* token validates, beside the session of the first
C3_Witness ==
    /\ IsLoginPost(last)
    /\ last.response.status = 302
    /\ last.response.SetCookie # NoCookie
    /\ validateSession(NOTES_KV, last.response.SetCookie.value, now)
    /\ \A token \in Tokens : issuedAt[token] # 0

\* C4: update(id, t, c) of a stored note followed by get(id) returns the
\* note with title t, content c, the same id, the createdAt it had and an
\* updatedAt not below the one it had, after any number of updates.
C4_UpdateThenGet ==
    [][(last'.op = "update" /\ getNote(NOTES_KV, last'.id) # NullNote) =>
        LET before == getNote(NOTES_KV, last'.id)
            after == getNote(NOTES_KV', last'.id)
        IN  /\ after # NullNote
            /\ after.title = last'.title
            /\ after.content = last'.content
            /\ after.id = last'.id
            /\ after.created = before.created
            /\ after.updated >= before.updated]_vars

\* a note created earlier has just been updated, at a later time, with
\* another title
C4_Witness ==
    /\ last.op = "update"
    /\ getNote(NOTES_KV, last.id) # NullNote
    /\ getNote(NOTES_KV, last.id).created < getNote(NOTES_KV, last.id).updated
    /\ getNote(NOTES_KV, last.id).title = "World"

\* C5: delete(id) of a stored note returns true and get(id) is then absent;
\* delete(id) of an id that is not stored returns false and leaves the
\* store unchanged.
C5_DeleteThenGet ==
    [][last'.op = "delete" =>
        IF getNote(NOTES_KV, last'.id) # NullNote
        THEN last'.result = TRUE /\ getNote(NOTES_KV', last'.id) = NullNote
        ELSE last'.result = FALSE /\ NOTES_KV' = NOTES_KV]_vars

\* delete has just returned false for an id whose note was deleted before,
\* while other notes are stored
C5_Witness ==
    /\ last.op = "delete"
    /\ last.result = FALSE
    /\ last.id \in usedIds
    /\ getNote(NOTES_KV, last.id) = NullNote
    /\ StoredIds(NOTES_KV) # {}

\* C6: in every reachable store state listAll() is sorted by createdAt,
\* non-increasing through every adjacent pair.
C6_ListSortedByCreated ==
    \A list \in {getAllNotes(NOTES_KV)} :
        \A i \in 1..(Len(list) - 1) : list[i].created >= list[i + 1].created

\* listAll has been called on three notes, of which the one first in key
\* order is the oldest and two share their createdAt
C6_Witness ==
    /\ last.op = "listAll"
    /\ \E list \in {getAllNotes(NOTES_KV)} :
           /\ Len(list) = 3
           /\ list[3].id = IdPool[1]
           /\ list[1].created = list[2].created
           /\ list[2].created > list[3].created

\* C7: for any two stored notes A and B, those sharing a createdAt
\* included, previousOf(A) = B exactly when nextOf(B) = A.
C7_PreviousAndNextAreInverse ==
    \A previousOf \in {{<<A, getPreviousNoteId(NOTES_KV, A)>> : A \in StoredIds(NOTES_KV)}},
       nextOf \in {{<<B, getNextNoteId(NOTES_KV, B)>> : B \in StoredIds(NOTES_KV)}} :
        \A A \in StoredIds(NOTES_KV), B \in StoredIds(NOTES_KV) :
            <<A, B>> \in previousOf <=> <<B, A>> \in nextOf

\* previousOf has been called on a note whose previous note shares its
\* createdAt
C7_Witness ==
    /\ last.op = "previousOf"
    /\ last.id \in StoredIds(NOTES_KV)
    /\ \E B \in StoredIds(NOTES_KV) :
           /\ getPreviousNoteId(NOTES_KV, last.id) = B
           /\ getNote(NOTES_KV, B).created = getNote(NOTES_KV, last.id).created

\* where id stands in list (0 when it does not)
PositionOf(list, id) ==
    IF \E i \in 1..Len(list) : list[i].id = id
    THEN CHOOSE i \in 1..Len(list) : list[i].id = id
    ELSE 0

\* C8: previousOf(id) is the id right after id in listAll() and nextOf(id)
\* the id right before it; previousOf is absent for the oldest note, nextOf
\* for the newest, and both are absent for an id that is not stored.
C8_PreviousIsNextOlder ==
    \A list \in {getAllNotes(NOTES_KV)} :
        \A id \in NoteIds :
            \A i \in {PositionOf(list, id)},
               previous \in {getPreviousNoteId(NOTES_KV, id)},
               next \in {getNextNoteId(NOTES_KV, id)} :
                /\ (i = 0) <=> (id \notin StoredIds(NOTES_KV))
                /\ previous = (IF i >= 1 /\ i < Len(list) THEN list[i + 1].id ELSE Null)
                /\ next = (IF i >= 2 THEN list[i - 1].id ELSE Null)
                /\ previous # Null =>
                       getNote(NOTES_KV, previous).created <= getNote(NOTES_KV, id).created
                /\ next # Null =>
                       getNote(NOTES_KV, next).created >= getNote(NOTES_KV, id).created

\* the scenario of three notes with three createdAt: nextOf has been called
\* on the oldest, whose next is the middle one, and the newest has no next
C8_Witness ==
    /\ last.op = "nextOf"
    /\ \E list \in {getAllNotes(NOTES_KV)} :
           /\ Len(list) = 3
           /\ list[1].created > list[2].created
           /\ list[2].created > list[3].created
           /\ last.id = list[3].id
           /\ getNextNoteId(NOTES_KV, list[3].id) = list[2].id
           /\ getPreviousNoteId(NOTES_KV, list[1].id) = list[2].id
           /\ getPreviousNoteId(NOTES_KV, list[3].id) = Null
           /\ getNextNoteId(NOTES_KV, list[1].id) = Null

IsHomeRequest(l) == IsFetch(l) /\ l.request.path = <<"">>

\* C9: latest() is the full note with the greatest createdAt among the
\* stored notes, and absent exactly when none is stored; the home route
\* answers 302 to the latest note's path when there is one and 200 with the
\* empty page when there is none.
C9_LatestIsNewest ==
    \A latest \in {getLatestNote(NOTES_KV)} :
        /\ (latest = NullNote) <=> (StoredIds(NOTES_KV) = {})
        /\ latest # NullNote =>
               /\ latest.id \in StoredIds(NOTES_KV)
               /\ latest = NOTES_KV.note[latest.id].value
               /\ \A id \in StoredIds(NOTES_KV) :
                      NOTES_KV.note[id].value.created <= latest.created
        /\ IsHomeRequest(last) =>
               IF StoredIds(NOTES_KV) = {}
               THEN /\ last.response.status = 200
                    /\ last.response.body = [page |-> "empty"]
               ELSE /\ last.response.status = 302
                    /\ last.response.Location = <<latest.id>>

\* the home route has redirected to the newest of three notes, which is not
\* the first in key order
C9_Witness ==
    /\ IsHomeRequest(last)
    /\ last.response.status = 302
    /\ Cardinality(StoredIds(NOTES_KV)) = 3
    /\ last.response.Location # <<IdPool[1]>>
    /\ \A id \in StoredIds(NOTES_KV) :
           <<id>> # last.response.Location =>
               NOTES_KV.note[id].value.created
                   < NOTES_KV.note[last.response.Location[1]].value.created

\* s holds no surrogate that is not half of a pair
RECURSIVE WellFormed(_)
WellFormed(s) ==
    IF s = <<>> THEN TRUE
    ELSE IF IsHighSurrogate(s[1])
        THEN Len(s) >= 2 /\ IsLowSurrogate(s[2]) /\ WellFormed(SubSeq(s, 3, Len(s)))
    ELSE ~IsLowSurrogate(s[1]) /\ WellFormed(Tail(s))

\* C10: compareSecret(a, b) is true exactly when the encoded a and b are
\* equal byte for byte (for well-formed strings: when a = b); it is false
\* whenever the encoded lengths differ, true for (s, s), the empty string
\* included, and false for (s, s + "x").
C10_CompareIffBytesEqual ==
    last.op = "secureCompare" =>
        /\ last.result <=> (encode(last.a) = encode(last.b))
        /\ Len(encode(last.a)) # Len(encode(last.b)) => ~last.result
        /\ (WellFormed(last.a) /\ WellFormed(last.b)) =>
               (last.result <=> (last.a = last.b))
        /\ last.a = last.b => last.result
        /\ last.b = Append(last.a, 120) => ~last.result

\* secureCompare has returned false for two strings of the same encoded
\* length that differ in their last byte only
C10_Witness ==
    /\ last.op = "secureCompare"
    /\ ~last.result
    /\ \E ea \in {encode(last.a)}, eb \in {encode(last.b)} :
           /\ Len(ea) = Len(eb)
           /\ Len(ea) >= 2
           /\ SubSeq(ea, 1, Len(ea) - 1) = SubSeq(eb, 1, Len(eb) - 1)
           /\ ea[Len(ea)] # eb[Len(eb)]

\* C11: two runs of compareSecret on inputs of equal length execute the same
\* number of comparison steps wherever the first differing byte is: each run
\* goes through every byte position, with no early exit.
C11_StepsIndependentOfMismatch ==
    \A r \in Runs, q \in Runs :
        (/\ calls[r].pc = "done"
         /\ calls[q].pc = "done"
         /\ Len(calls[r].aBuffer) = Len(calls[r].bBuffer)
         /\ Len(calls[q].aBuffer) = Len(calls[q].bBuffer)
         /\ Len(calls[r].aBuffer) = Len(calls[q].aBuffer))
        => /\ calls[r].steps = calls[q].steps
           /\ calls[r].steps = Len(calls[r].aBuffer)
           /\ calls[r].i = Len(calls[r].aBuffer)

\* the byte positions where two buffers of the same length differ
Mismatches(x, y) == {k \in 1..Len(x) : x[k] # y[k]}

\* both runs have returned false on inputs of the same length: the first
\* differs from the secret in the first byte only, the second in the last
C11_Witness ==
    /\ \A r \in Runs : calls[r].pc = "done" /\ ~calls[r].returned
    /\ Len(calls[1].aBuffer) >= 2
    /\ Len(calls[1].bBuffer) = Len(calls[1].aBuffer)
    /\ Len(calls[2].bBuffer) = Len(calls[1].aBuffer)
    /\ Mismatches(calls[1].aBuffer, calls[1].bBuffer) = {1}
    /\ Mismatches(calls[2].aBuffer, calls[2].bBuffer) = {Len(calls[2].aBuffer)}
    /\ calls[1].steps = calls[2].steps

\* the value of the header name of response, <<>> when it has none
HeaderValue(response, name) ==
    IF \E h \in response.headers : h[1] = name
    THEN (CHOOSE h \in response.headers : h[1] = name)[2]
    ELSE <<>>

\* response carries the five security headers
CarriesSecurityHeaders(response) ==
    /\ \E k \in DOMAIN HeaderValue(response, "Content-Security-Policy") :
           HeaderValue(response, "Content-Security-Policy")[k] = "script-src 'none'"
    /\ HeaderValue(response, "X-Content-Type-Options") = <<"nosniff">>
    /\ HeaderValue(response, "X-Frame-Options") = <<"DENY">>
    /\ HeaderValue(response, "Referrer-Policy") # <<>>
    /\ HeaderValue(response, "Permissions-Policy") # <<>>

\* C12: every response the worker returns, on every route and outcome, the
\* redirect of an unauthenticated request to /admin/login included, carries
\* Content-Security-Policy with script-src 'none', X-Content-Type-Options:
\* nosniff, X-Frame-Options: DENY, Referrer-Policy and Permissions-Policy.
C12_EveryResponseCarriesSecurityHeaders ==
    IsFetch(last) => CarriesSecurityHeaders(last.response)

\* l is a create or an update request: POST /admin/new or POST /admin/edit/:id
IsNoteSubmission(l) ==
    /\ IsFetch(l)
    /\ l.request.method = "POST"
    /\ \/ l.request.path = <<"admin", "new">>
       \/ MatchId(<<"admin", "edit">>, l.request.path) # Null

\* the title or the content of the submitted form is missing or empty
LacksTitleOrContent(form) ==
    \/ "title" \notin DOMAIN form
    \/ "content" \notin DOMAIN form
    \/ form.title = ""
    \/ form.content = <<>>

EntriesOf(list, id) == {i \in 1..Len(list) : list[i].id = id}

\* C14: in every reachable store state get(id) is present exactly when
\* listAll() has an entry for id, it has one only, and the entry's id,
\* title, createdAt and updatedAt are those of the full record.
C14_RecordAndProjectionAgree ==
    \A list \in {getAllNotes(NOTES_KV)} :
        \A id \in NoteIds :
            \A note \in {getNote(NOTES_KV, id)}, entries \in {EntriesOf(list, id)} :
                /\ (note # NullNote) <=> (entries # {})
                /\ Cardinality(entries) <= 1
                /\ \A i \in entries :
                       /\ list[i].id = note.id
                       /\ list[i].title = note.title
                       /\ list[i].created = note.created
                       /\ list[i].updated = note.updated

\* a note has been updated, after its creation and with another title, while
\* a second note is stored and a third has been deleted
C14_Witness ==
    /\ last.op = "update"
    /\ \E note \in {getNote(NOTES_KV, last.id)} :
           /\ note # NullNote
           /\ note.updated > note.created
           /\ note.title = "World"
    /\ Cardinality(StoredIds(NOTES_KV)) = 2
    /\ usedIds \ StoredIds(NOTES_KV) # {}

\* C15: in every reachable store state the renderedBody of each stored note
\* is sanitize(markdown(content)) of the content stored in the same record.
C15_RenderedBodyOfStoredContent ==
    \A id \in StoredIds(NOTES_KV) :
        \A note \in {getNote(NOTES_KV, id)} :
            note.htmlContent = sanitizeHtml(marked_parse(note.content))

\* a note has been updated after its creation and its renderedBody is the
\* heading of the content it holds, beside a note of another content
C15_Witness ==
    /\ last.op = "update"
    /\ \E note \in {getNote(NOTES_KV, last.id)} :
           /\ note # NullNote
           /\ note.updated > note.created
           /\ note.content = <<"# Hi">>
           /\ note.htmlContent = <<[tag |-> "h1", attrs |-> {}, text |-> "Hi"]>>
    /\ \E id \in StoredIds(NOTES_KV) :
           getNote(NOTES_KV, id).content # <<"# Hi">>

\* the attributes that name an event handler, among those of the modelled sources
EventHandlerAttributes == {"onerror", "onclick"}

\* html has no script element and no event-handler attribute
NoScriptNoHandlers(html) ==
    \A i \in 1..Len(html) :
        /\ html[i].tag # "script"
        /\ html[i].attrs \cap EventHandlerAttributes = {}

\* C16: create followed by get(id) returns a note whose renderedBody has no
\* <script> tag and no on*= attribute, also for a content that holds
\* <script>alert(1)</script> or <img src=x onerror=alert(1)>.
C16_CreatedNoteHasNoScript ==
    last.op = "create" =>
        /\ getNote(NOTES_KV, last.id) # NullNote
        /\ NoScriptNoHandlers(getNote(NOTES_KV, last.id).htmlContent)

\* a note has been created from a content with a script element and an img
\* with onerror: its renderedBody keeps the img, with src only
C16_Witness ==
    /\ last.op = "create"
    /\ \E i \in 1..Len(last.content) : last.content[i] = "<script>alert(1)</script>"
    /\ \E i \in 1..Len(last.content) : last.content[i] = "<img src=x onerror=alert(1)>"
    /\ ~NoScriptNoHandlers(marked_parse(last.content))
    /\ \E html \in {getNote(NOTES_KV, last.id).htmlContent} :
           \E i \in 1..Len(html) : html[i].tag = "img" /\ html[i].attrs = {"src"}

\* the record stored under the id of call is the note call was given: its
\* title, its content and the renderedBody of that content, with a metadata
\* projection of the same note
StoredWholeFrom(kv, call) ==
    /\ kv.note[call.id] # NullEntry
    /\ kv.note[call.id].value = call.returned
    /\ kv.note[call.id].value.title = call.title
    /\ kv.note[call.id].value.content = call.content
    /\ kv.note[call.id].value.htmlContent = sanitizeHtml(marked_parse(call.content))
    /\ kv.note[call.id].metadata.id = call.id
    /\ kv.note[call.id].metadata.title = call.title
    /\ kv.note[call.id].metadata.created = call.returned.created
    /\ kv.note[call.id].metadata.updated = call.returned.updated

C18_ConcurrentUpdatesLastWriterWins ==
    \A c \in Callers, d \in Callers :
        (/\ c # d
         /\ calls[c].op = "update" /\ calls[d].op = "update"
         /\ calls[c].id = calls[d].id
         /\ calls[c].before # NullNote /\ calls[d].before # NullNote
         /\ calls[c].pc = "done" /\ calls[d].pc = "done"
         /\ calls[c].seq > calls[d].seq)
        => /\ StoredWholeFrom(NOTES_KV, calls[c])
           /\ NOTES_KV.note[calls[c].id].value.created = calls[d].before.created
           /\ NOTES_KV.note[calls[c].id].value.created = calls[c].before.created
           /\ calls[c].returned # NullNote /\ calls[d].returned # NullNote
           /\ calls[d].returned.title = calls[d].title
           /\ calls[d].returned.content = calls[d].content

\* two updates of one stored note, with different titles and contents, have
\* both completed; both had read the note before either wrote, and the one
\* that read first wrote last
C18_Witness ==
    /\ \A c \in Callers :
           /\ calls[c].op = "update"
           /\ calls[c].pc = "done"
           /\ calls[c].before # NullNote
           /\ calls[c].writesAtRead = 0
    /\ calls[1].id = calls[2].id
    /\ calls[1].title # calls[2].title
    /\ calls[1].content # calls[2].content
    /\ calls[1].seq = 2
    /\ calls[1].returned.updated < calls[2].returned.updated
    /\ StoredWholeFrom(NOTES_KV, calls[1])

\* C19: update(id, title, content) of an id with no stored record stores a
\* new note under that id, with the title and the content given and
\* createdAt = updatedAt = now; get(id) returns it, listAll() has it, and
\* the other notes are as they were.
C19_UpdateOfAbsentIdCreates ==
    [][(last'.op = "update" /\ getNote(NOTES_KV, last'.id) = NullNote) =>
        \A note \in {getNote(NOTES_KV', last'.id)}, list \in {getAllNotes(NOTES_KV')} :
            /\ note # NullNote
            /\ note.id = last'.id
            /\ note.title = last'.title
            /\ note.content = last'.content
            /\ note.created = now
            /\ note.updated = now
            /\ \E i \in 1..Len(list) :
                   list[i].id = last'.id /\ list[i].created = now
            /\ \A id \in NoteIds \ {last'.id} :
                   getNote(NOTES_KV', id) = getNote(NOTES_KV, id)]_vars

\* update has stored a note under an id that held none, after the clock's
\* first millisecond and beside an older note
C19_Witness ==
    /\ last.op = "update"
    /\ ~last.existed
    /\ \E note \in {getNote(NOTES_KV, last.id)} :
           /\ note # NullNote
           /\ note.created = now
           /\ note.updated = now
           /\ now > 1
           /\ \E id \in StoredIds(NOTES_KV) : getNote(NOTES_KV, id).created < note.created


\* C20: when a key-value call made by an operation of the Note Store or the
\* Session Manager fails, the operation fails with that same failure: it
\* has returned nothing (neither "absent" nor false), the failed call is the
\* last call it made (no retry, no further call), and the namespace is what
\* it was when the operation was called.
C20_FailedCallFailsOperation ==
    \A c \in DOMAIN calls :
        (calls[c].pc # "idle" /\ calls[c].failure # Null) =>
            /\ calls[c].pc = "thrown"
            /\ calls[c].thrown = calls[c].failure
            /\ Len(calls[c].trace) = Len(calls[c].results) + 1
            /\ NOTES_KV = calls[c].before

\* saveNote of a stored note has read the note and its put was rejected
C20_Witness ==
    /\ calls # NoCalls
    /\ calls[1].pc = "thrown"
    /\ calls[1].op = "saveNote"
    /\ calls[1].thrown = "KV: timed out"
    /\ calls[1].trace = <<KVCall("get", "note", IdPool[1]), KVCall("put", "note", IdPool[1])>>
    /\ getNote(NOTES_KV, IdPool[1]) # NullNote


IsLogout(l) == IsFetch(l) /\ l.request.path = <<"admin", "logout">>

\* C21: the logout route, and the deleteSession it calls, deletes at most
\* the session of the token the request presents: every other token
\* validates as before and no note changes; with no token, an empty token or
\* a token that has no session the namespace stays as it was and the route
\* answers all the same; whatever the request carries, the answer is 302 to
\* / with a session cookie of empty value and Max-Age 0.
C21_LogoutRevokesOnlyPresentedToken ==
    [][IsLogout(last') =>
          \A presented \in {getSessionFromCookie(last'.request)} :
              /\ last'.response.status = 302
              /\ last'.response.Location = <<"">>
              /\ last'.response.SetCookie.name = "session"
              /\ last'.response.SetCookie.value = ""
              /\ last'.response.SetCookie.MaxAge = 0
              /\ NOTES_KV'.note = NOTES_KV.note
              /\ \A token \in Tokens \ {presented} :
                     /\ NOTES_KV'.session[token] = NOTES_KV.session[token]
                     /\ validateSession(NOTES_KV', token, now')
                            = validateSession(NOTES_KV, token, now)
              /\ (presented = Null \/ NOTES_KV.session[presented] = NullEntry)
                     => NOTES_KV' = NOTES_KV
              /\ presented # Null => ~validateSession(NOTES_KV', presented, now')
      ]_vars

\* a logout with the token of a live session has been answered, and the
\* other token's session is still valid
C21_Witness ==
    /\ IsLogout(last)
    /\ getSessionFromCookie(last.request) = TokenPool[1]
    /\ TokenPool[1] \in revoked
    /\ NOTES_KV.session[TokenPool[1]] = NullEntry
    /\ validateSession(NOTES_KV, TokenPool[2], now)


\* C22: validateSession called with no token or with the empty string
\* makes no key-value call, leaves the namespace as it was, and returns
\* false.
C22_ValidateWithoutTokenTouchesNoStore ==
    \A c \in DOMAIN calls :
        (/\ calls[c].pc # "idle"
         /\ calls[c].op = "validateSession"
         /\ calls[c].token \in {"", Null}) =>
            /\ calls[c].trace = <<>>
            /\ calls[c].failure = Null
            /\ NOTES_KV = calls[c].before
            /\ calls[c].pc = "returned" => ReturnValue(calls[c]) = FALSE

\* validateSession of the empty string has returned while the namespace
\* holds a valid session
C22_Witness ==
    /\ calls # NoCalls
    /\ calls[1].pc = "returned"
    /\ calls[1].op = "validateSession"
    /\ calls[1].token = ""
    /\ validateSession(NOTES_KV, TokenPool[1], now)


\* the number a zero-padded id stands for
NumberOf(id) == CHOOSE n \in 0..(MaxNumber + 1) : padStart(toString(n), 4, "0") = id

\* C23: as long as no call of getNextNoteNumber was made while another was
\* in flight, a call returns a four-character zero-padded id that is
\* distinct from, and greater than, every id returned by the calls before
\* it; two calls in flight at once can read the same counter and return
\* the same id, and the two notes saved under it end as one.
C23_SequentialNumbersIncrease ==
    \A c \in DOMAIN calls :
        (/\ calls[c].pc = "returned"
         /\ calls[c].op = "getNextNoteNumber"
         /\ ~last.overlapped) =>
            \A id \in {ReturnValue(calls[c])} :
                /\ Len(id) = 4
                /\ id = padStart(toString(NumberOf(id)), 4, "0")
                /\ \A e \in calls[c].earlier : NumberOf(e) < NumberOf(id)

\* two creations were in flight at once, both got the id 0001 and both
\* saved a note under it: the store holds one note and the counter is 1
C23_Witness ==
    /\ DOMAIN calls = Creators
    /\ last.op = "getNextNoteNumber"
    /\ last.overlapped
    /\ \A c \in Creators :
           /\ calls[c].pc = "returned"
           /\ calls[c].op = "saveNote"
           /\ calls[c].id = "0001"
    /\ Len(getAllNotes(NOTES_KV)) = 1
    /\ NOTES_KV.counter = "1"


\* the call is a deleteNote of id that has returned true
DeletedTrue(call, id) ==
    /\ call.pc = "returned"
    /\ call.op = "deleteNote"
    /\ call.id = id
    /\ ReturnValue(call) = TRUE

\* C24: once deleteNote(id) has returned true, getNote(id) is absent and
\* stays absent, and id stays out of getAllNotes, until a saveNote of id
\* that was called after the note was deleted writes it: a step that brings
\* the note back is the put of a saveNote that found no note under id when
\* it was called, never the put of an update that was already in flight.
C24_DeletedStaysDeleted ==
    [][\A c \in DOMAIN calls, id \in NoteIds :
          (/\ DeletedTrue(calls[c], id)
           /\ calls'[c] = calls[c]
           /\ getNote(NOTES_KV, id) = NullNote) =>
              \/ /\ getNote(NOTES_KV', id) = NullNote
                 /\ EntriesOf(getAllNotes(NOTES_KV'), id) = {}
              \/ \E d \in DOMAIN calls :
                     /\ calls[d].pc = "run"
                     /\ calls[d].op = "saveNote"
                     /\ calls[d].id = id
                     /\ calls'[d].trace # calls[d].trace
                     /\ calls[d].before.note[id] = NullEntry
      ]_vars

\* C25: getLatestNote returns null only if the namespace held no note at
\* some moment between its call and its return, also when a deleteNote runs
\* at the same time.
C25_LatestAbsentOnlyIfEmptied ==
    \A c \in DOMAIN calls :
        (/\ calls[c].pc = "returned"
         /\ calls[c].op = "getLatestNote"
         /\ ReturnValue(calls[c]) = NullNote) => calls[c].emptied

==============================================================================
